---- MODULE Spec2Model ----
(***************************************************************************)
(* The in-memory store of ckube (store/memory/memory.go): a three-level    *)
(* map resourceType -> cluster -> namespace -> name, with one RWMutex per  *)
(* cluster object and one per namespace bucket, and the store-wide m.lock  *)
(* that only Clean takes.  Every access of a shared map or lock is one     *)
(* step of the calling goroutine, so that the interleavings the code       *)
(* allows are the behaviours of the model.                                 *)
(***************************************************************************)
EXTENDS Integers, Sequences, FiniteSets, TLC

\* ------------------------------------------------------------------ bounds
\* calls one goroutine issues in the sequential specification
SeqCalls == 3
\* calls the goroutines issue altogether in the concurrent specification
ConcCalls == 3
\* calls the goroutines issue altogether in the fair specification
FairCalls == 2
\* objects stored before the queries of the pagination specification, and
\* the queries it issues
MaxTotal == 5
PageCalls == 1
\* the largest page and pageSize a query is given
MaxPage == 4
MaxPageSize == 3
\* calls of the configuration specification
ConfCalls == 2
\* queries of the query specification
QueryCalls == 1

\* ----------------------------------------------------------------- domains
Threads == {"t1", "t2"}
SeqThreads == {"t1"}
\* the resource types of the index configuration, and one that is not in it
GVRS == {"g1", "g2", "g3"}
Unconfigured == "g0"
Clusters == {"c1", "c2"}
\* "" is the namespace and the name of an object whose index has none
Namespaces == {"", "a", "b"}
NameSeq == <<"n1", "n2", "n3", "n4", "n5", "n6", "n7">>
Names == {NameSeq[i] : i \in 1..Len(NameSeq)} \cup {""}
Datas == {1, 2}
\* the values of the data field that the queries sort by
Priorities == {1, 2, 3, 10}
\* Query.Page and Query.PageSize are int64: zero and negative values included
Pages == (0 - 1)..MaxPage
PageSizes == (0 - 1)..MaxPageSize
Nil == "nil"

\* the keys <<gvr, cluster, namespace, name>> the sequential specification
\* draws its calls from: two names in one bucket, a second bucket, a second
\* cluster and a second resource type
SeqKeys == {<<"g1", "c1", "a", "n1">>, <<"g1", "c1", "a", "n2">>, <<"g1", "c1", "b", "n1">>,
            <<"g1", "c2", "a", "n1">>, <<"g2", "c1", "a", "n1">>}
\* the keys the concurrent specification draws its calls from
ConcKeys == {<<"g1", "c1", "a", "n1">>, <<"g1", "c1", "b", "n1">>}

\* Go compares strings bytewise; every string of the model, in that order
StrOrder == <<"", "1", "10", "2", "3", "a", "b", "c1", "c2", "false",
              "n1", "n2", "n3", "n4", "n5", "n6", "n7", "true">>
StrRank(s) == CHOOSE i \in 1..Len(StrOrder) : StrOrder[i] = s
StrLess(a, b) == StrRank(a) < StrRank(b)

VARIABLES
  resourceMap,  \* m.resourceMap: gvr -> cluster -> clusterObj (0: no entry)
  cobj,         \* the clusterObj values in use: their lock and namespaces map
  robj,         \* the resourceObj values in use: their lock and objMap
  mlock,        \* m.lock
  th,           \* each goroutine: its call, its position in it, its locals
  fatal,        \* the runtime has thrown a fatal error: the process is gone
  calls,        \* calls started so far
  exp           \* history: what the returned calls left stored

vars == <<resourceMap, cobj, robj, mlock, th, fatal, calls, exp>>

\* ------------------------------------------------------------ sync.RWMutex
NewRWMutex == [w |-> FALSE, r |-> 0]
CanLock(l) == ~l.w /\ l.r = 0
CanRLock(l) == ~l.w
Lock(l) == [l EXCEPT !.w = TRUE]
RLock(l) == [l EXCEPT !.r = @ + 1]
\* Unlock of a mutex that is not write-locked is a fatal error of the runtime
UnlockFaults(l) == ~l.w
Unlock(l) == [l EXCEPT !.w = FALSE]
RUnlockFaults(l) == l.r = 0
RUnlock(l) == [l EXCEPT !.r = IF @ > 0 THEN @ - 1 ELSE 0]

\* ---------------------------------------------------------------- the heap
NoNamespaces == [n \in Namespaces |-> 0]
\* a Go map is a function on the keys it holds
NoObjects == [n \in {} |-> Nil]
\* a clusterObj without namespaces and a resourceObj without objects
EmptyCluster == [lock |-> NewRWMutex, namespaces |-> NoNamespaces]
EmptyBucket == [lock |-> NewRWMutex, objMap |-> NoObjects]

\* the cluster objects a map entry or a goroutine's local still refers to
LiveClusters(rm, t2) ==
  ({rm[g][c] : g \in GVRS, c \in Clusters}
     \cup {t2[t].c : t \in Threads} \cup {t2[t].lk : t \in Threads}
     \cup {t2[t].dL : t \in Threads} \cup {t2[t].nss : t \in Threads}) \ {0}

LiveBuckets(rm, co, t2) ==
  ({co[k].namespaces[n] : k \in LiveClusters(rm, t2), n \in Namespaces}
     \cup {t2[t].nl : t \in Threads} \cup {t2[t].dN : t \in Threads}
     \cup {t2[t].qb : t \in Threads}) \ {0}

\* a new value gets the least address not in use
Fresh(used) == CHOOSE k \in 1..(Cardinality(used) + 1) :
                 k \notin used /\ \A j \in 1..(k - 1) : j \in used
FreshCluster == Fresh(DOMAIN cobj)
FreshBucket == Fresh(DOMAIN robj)
\* the heap with a new value at address k
Alloc(heap, k, v) == [j \in DOMAIN heap \cup {k} |-> IF j = k THEN v ELSE heap[j]]

\* the next state of the store and the goroutines; values nothing refers to
\* any more are garbage and leave the heap
Commit(rm, co, ro, t2) ==
  /\ resourceMap' = rm
  /\ cobj' = [k \in LiveClusters(rm, t2) |-> co[k]]
  /\ robj' = [b \in LiveBuckets(rm, co, t2) |-> ro[b]]
  /\ th' = t2

\* m.resourceMap[gvr][cluster] as a map read yields it: 0 when the resource
\* type has no cluster map (a read of a nil map) or the map no such cluster
clusterGet(rm, g, c) == IF g \in GVRS THEN rm[g][c] ELSE 0

\* -------------------------------------------------------------- the views
\* what is stored, without the heap cells: clusters, buckets and objects
Stored(g, c, n, m) ==
  LET k == resourceMap[g][c] IN
  /\ k # 0
  /\ cobj[k].namespaces[n] # 0
  /\ m \in DOMAIN robj[cobj[k].namespaces[n]].objMap
Entry(g, c, n, m) == robj[cobj[resourceMap[g][c]].namespaces[n]].objMap[m]

ClusterView == {<<g, c>> \in GVRS \X Clusters : resourceMap[g][c] # 0}
BucketView == {<<g, c, n>> \in GVRS \X Clusters \X Namespaces :
                 resourceMap[g][c] # 0 /\ cobj[resourceMap[g][c]].namespaces[n] # 0}
ObjectView == {<<x[1], x[2], x[3], x[4], Entry(x[1], x[2], x[3], x[4]).Obj>> :
                 x \in {y \in GVRS \X Clusters \X Namespaces \X Names :
                          Stored(y[1], y[2], y[3], y[4])}}
View == [cl |-> ClusterView, ns |-> BucketView, ob |-> ObjectView]
NoView == [cl |-> {}, ns |-> {}, ob |-> {}]

\* ------------------------------------------------------------ goroutines
\* a goroutine outside any call; out and res keep the last call's outcome
NoResult == [Items |-> <<>>, Total |-> 0, Error |-> Nil]
Idle == [pc |-> "idle", op |-> "none", gvr |-> Nil, cluster |-> Nil, ns |-> Nil,
         name |-> Nil, o |-> <<>>, c |-> 0, lk |-> 0, dL |-> 0, nl |-> 0, dN |-> 0,
         nss |-> 0, qb |-> 0, vis |-> {}, nsvis |-> {}, acc |-> {}, err |-> Nil,
         qns |-> "", pred |-> "any", sort |-> <<>>, page |-> 0, pageSize |-> 0,
         out |-> "none", got |-> <<>>, res |-> NoResult, pre |-> NoView, hit |-> FALSE]

\* the call has ended: the locals are gone, the arguments and the outcome stay
Return(r, out) ==
  [r EXCEPT !.pc = "idle", !.c = 0, !.lk = 0, !.dL = 0, !.nl = 0, !.dN = 0,
            !.nss = 0, !.qb = 0, !.vis = {}, !.nsvis = {}, !.acc = {}, !.err = Nil,
            !.out = out]

Set(t, r) == [th EXCEPT ![t] = r]

\* another goroutine is inside a delete of this key or a Clean of its cluster
Removing(t, g, c, n, m) ==
  \E u \in Threads \ {t} :
     /\ th[u].pc # "idle" /\ th[u].gvr = g /\ th[u].cluster = c
     /\ \/ th[u].op = "clean"
        \/ th[u].op = "delete" /\ th[u].ns = n /\ th[u].name = m

\* a delete of the key (or, with whole, a Clean of its cluster) is called:
\* the upserts of it that are under way are no longer the last word on it
Mark(t2, g, c, n, m, whole) ==
  [u \in Threads |->
     IF /\ t2[u].pc # "idle" /\ t2[u].op = "upsert" /\ t2[u].gvr = g /\ t2[u].cluster = c
        /\ (whole \/ (t2[u].ns = n /\ t2[u].name = m))
     THEN [t2[u] EXCEPT !.hit = TRUE] ELSE t2[u]]

Forget(e, g, c, n, m) == {x \in e : ~(x[1] = g /\ x[2] = c /\ x[3] = n /\ x[4] = m)}
ForgetCluster(e, g, c) == {x \in e : ~(x[1] = g /\ x[2] = c)}

\* ------------------------------------------------- buildResourceWithIndex
\* indexConf: the index keys of each resource type and the field each one's
\* jsonpath extracts
\* g2 also indexes the data field, as priority; g3 indexes nothing else and
\* so has neither namespace nor name
indexConf ==
  [g \in GVRS |->
     CASE g = "g1" -> [namespace |-> "namespace", name |-> "name"]
       [] g = "g2" -> [namespace |-> "namespace", name |-> "name", priority |-> "data"]
       [] g = "g3" -> [priority |-> "data"]]

\* the decimal text of a number, as the jsonpath printer writes it
Itoa(i) == CASE i = 1 -> "1" [] i = 2 -> "2" [] i = 3 -> "3" [] i = 10 -> "10"
\* jp.Execute(w, mobj) with AllowMissingKeys: the text of the field, or ""
Evaluate(path, raw) ==
  IF path \notin DOMAIN raw THEN ""
  ELSE IF path = "data" THEN Itoa(raw[path]) ELSE raw[path]

\* a raw object is a record of its fields; v1 tells whether it implements
\* v1.Object, deleted whether its deletion timestamp is set, anno holds its
\* annotations. A resource type without configuration has a nil indexConf
\* entry: the range over it yields nothing.
buildResourceWithIndex(g, cluster, raw) ==
  LET confKeys == IF g \in GVRS THEN DOMAIN indexConf[g] ELSE {}
      builtin == {"cluster"} \cup (IF raw.v1 THEN {"is_deleted"} ELSE {})
      index == [k \in confKeys \cup builtin |->
                  IF k = "cluster" THEN cluster
                  ELSE IF k = "is_deleted" /\ raw.v1
                  THEN (IF raw.deleted THEN "true" ELSE "false")
                  ELSE Evaluate(indexConf[g][k], raw)]
  IN [namespace |-> IF "namespace" \in confKeys THEN index["namespace"] ELSE "",
      name |-> IF "name" \in confKeys THEN index["name"] ELSE "",
      o |-> [Index |-> index,
             Obj |-> IF raw.v1
                     THEN [raw EXCEPT !.anno = <<[cluster |-> cluster, index |-> index]>>]
                     ELSE raw]]

\* a v1.Object without deletion timestamp and without annotations
Raw(namespace, name, data) ==
  [namespace |-> namespace, name |-> name, data |-> data,
   v1 |-> TRUE, deleted |-> FALSE, anno |-> <<>>]
\* the raw objects whose index yields the namespace and the name of a key
RawObjects(key) == {Raw(key[3], key[4], d) : d \in Datas}

\* --------------------------------------------------- initResourceNamespace
\* OnResourceAdded/Modified/Deleted up to line 55: the index is built and
\* m.resourceMap[gvr][cluster] is read
CallWrite(t, op, g, cluster, raw) ==
  /\ ~fatal /\ th[t].pc = "idle"
  /\ LET b == buildResourceWithIndex(g, cluster, raw)
         k == clusterGet(resourceMap, g, cluster)
         marked == IF op = "delete" THEN Mark(th, g, cluster, b.namespace, b.name, FALSE) ELSE th
     IN /\ Commit(resourceMap, cobj, robj,
              [marked EXCEPT ![t] = [Idle EXCEPT !.pc = IF k # 0 THEN "init_rlock" ELSE "init_new",
                                  !.op = op, !.gvr = g, !.cluster = cluster,
                                  !.ns = b.namespace, !.name = b.name,
                                  !.o = IF op = "delete" THEN <<>> ELSE <<b.o>>,
                                  !.c = k, !.pre = IF op = "delete" THEN View ELSE NoView,
                                  !.hit = op = "upsert" /\ Removing(t, g, cluster, b.namespace, b.name)]])
        /\ exp' = IF op = "delete" THEN Forget(exp, g, cluster, b.namespace, b.name) ELSE exp
  /\ calls' = calls + 1
  /\ UNCHANGED <<mlock, fatal>>

OnResourceAdded(t, g, cluster, raw) == CallWrite(t, "upsert", g, cluster, raw)
OnResourceModified(t, g, cluster, raw) == CallWrite(t, "upsert", g, cluster, raw)
OnResourceDeleted(t, g, cluster, raw) == CallWrite(t, "delete", g, cluster, raw)

\* line 56: c.lock.RLock()
InitRLock(t) ==
  /\ ~fatal /\ th[t].pc = "init_rlock"
  /\ CanRLock(cobj[th[t].c].lock)
  /\ Commit(resourceMap, [cobj EXCEPT ![th[t].c].lock = RLock(@)], robj,
            Set(t, [th[t] EXCEPT !.pc = "init_check"]))
  /\ UNCHANGED <<mlock, fatal, calls, exp>>

\* lines 57-63: the namespace is looked up in c.namespaces, c.lock.RUnlock()
InitCheck(t) ==
  /\ ~fatal /\ th[t].pc = "init_check"
  /\ LET k == th[t].c
         found == cobj[k].namespaces[th[t].ns] # 0
     IN Commit(resourceMap, [cobj EXCEPT ![k].lock = RUnlock(@)], robj,
               Set(t, [th[t] EXCEPT !.pc = IF found THEN "w_lockread" ELSE "init_lock",
                                    !.c = IF found THEN 0 ELSE k]))
  /\ UNCHANGED <<mlock, fatal, calls, exp>>

\* line 64: c.lock.Lock()
InitLock(t) ==
  /\ ~fatal /\ th[t].pc = "init_lock"
  /\ CanLock(cobj[th[t].c].lock)
  /\ Commit(resourceMap, [cobj EXCEPT ![th[t].c].lock = Lock(@)], robj,
            Set(t, [th[t] EXCEPT !.pc = "init_insert"]))
  /\ UNCHANGED <<mlock, fatal, calls, exp>>

\* the map write of line 65: the bucket of the namespace is set, whatever was there
namespacesPut(nsmap, n, b) == [nsmap EXCEPT ![n] = b]

\* lines 65-69: m.resourceMap[gvr][cluster].namespaces[namespace] gets a new
\* bucket (the map entry is read again, not taken from c), c.lock.Unlock()
InitInsert(t) ==
  /\ ~fatal /\ th[t].pc = "init_insert"
  /\ LET k == resourceMap[th[t].gvr][th[t].cluster]
         b == FreshBucket
         co1 == [cobj EXCEPT ![k].namespaces = namespacesPut(@, th[t].ns, b)]
         co2 == [co1 EXCEPT ![th[t].c].lock = Unlock(@)]
     IN IF UnlockFaults(cobj[th[t].c].lock)
        THEN fatal' = TRUE /\ UNCHANGED <<resourceMap, cobj, robj, th>>
        ELSE /\ Commit(resourceMap, co2, Alloc(robj, b, EmptyBucket),
                       Set(t, [th[t] EXCEPT !.pc = "w_lockread", !.c = 0]))
             /\ UNCHANGED fatal
  /\ UNCHANGED <<mlock, calls, exp>>

\* clusterPut as a write that drops the other clusters of the resource type
clusterPutAlone(cmap, cluster, k) == [c \in DOMAIN cmap |-> IF c = cluster THEN k ELSE 0]

\* the map write of line 74: the cluster's entry is set, whatever was there
clusterPut(cmap, cluster, k) == [cmap EXCEPT ![cluster] = k]

\* lines 74-82: m.resourceMap[gvr][cluster] gets a new clusterObj that holds
\* a new bucket for the namespace; for a resource type without cluster map
\* this is an assignment to an entry in a nil map, which panics
InitNewCluster(t) ==
  /\ ~fatal /\ th[t].pc = "init_new"
  /\ LET k == FreshCluster
         b == FreshBucket
     IN IF th[t].gvr \notin GVRS
        THEN Commit(resourceMap, cobj, robj, Set(t, Return(th[t], "panic")))
        ELSE Commit([resourceMap EXCEPT ![th[t].gvr] = clusterPut(@, th[t].cluster, k)],
                    Alloc(cobj, k, [lock |-> NewRWMutex,
                                    namespaces |-> namespacesPut(NoNamespaces, th[t].ns, b)]),
                    Alloc(robj, b, EmptyBucket),
                    Set(t, [th[t] EXCEPT !.pc = "w_lockread"]))
  /\ UNCHANGED <<mlock, fatal, calls, exp>>

\* ------------------------------------- OnResourceAdded/Modified/Deleted
\* line 108: the receiver of Lock(), m.resourceMap[gvr][cluster].lock, is read
WriteLockRead(t) ==
  /\ ~fatal /\ th[t].pc = "w_lockread"
  /\ Commit(resourceMap, cobj, robj,
            Set(t, [th[t] EXCEPT !.pc = "w_lock", !.lk = resourceMap[th[t].gvr][th[t].cluster]]))
  /\ UNCHANGED <<mlock, fatal, calls, exp>>

\* line 108: Lock() on it; lk stays, as the lock this call has acquired
WriteLock(t) ==
  /\ ~fatal /\ th[t].pc = "w_lock"
  /\ CanLock(cobj[th[t].lk].lock)
  /\ Commit(resourceMap, [cobj EXCEPT ![th[t].lk].lock = Lock(@)], robj,
            Set(t, [th[t] EXCEPT !.pc = "w_defer"]))
  /\ UNCHANGED <<mlock, fatal, calls, exp>>

\* line 109: defer evaluates m.resourceMap[gvr][cluster].lock once more
WriteDefer(t) ==
  /\ ~fatal /\ th[t].pc = "w_defer"
  /\ Commit(resourceMap, cobj, robj,
            Set(t, [th[t] EXCEPT !.pc = "w_nsread", !.dL = resourceMap[th[t].gvr][th[t].cluster]]))
  /\ UNCHANGED <<mlock, fatal, calls, exp>>

\* the deferred Unlock calls run at the end of the call, last deferred first:
\* the bucket's lock (when hasN: line 111 was reached), then the cluster's.
\* A nil bucket lock panics, and the cluster's Unlock still runs.
RunDefers(co, ro, dL, dN, hasN) ==
  LET nFatal == hasN /\ dN # 0 /\ UnlockFaults(ro[dN].lock)
      ro2 == IF hasN /\ dN # 0 THEN [ro EXCEPT ![dN].lock = Unlock(@)] ELSE ro
  IN [fatal |-> nFatal \/ UnlockFaults(co[dL].lock),
      panic |-> hasN /\ dN = 0,
      co |-> [co EXCEPT ![dL].lock = Unlock(@)],
      ro |-> ro2]

\* the call ends by a panic raised at this step, or goes on to pc
EndOrGo(t, panics, hasN, pc, co, ro, r) ==
  IF panics
  THEN LET d == RunDefers(co, ro, th[t].dL, th[t].dN, hasN) IN
       IF d.fatal
       THEN fatal' = TRUE /\ UNCHANGED <<resourceMap, cobj, robj, th>>
       ELSE Commit(resourceMap, d.co, d.ro, Set(t, Return(r, "panic"))) /\ UNCHANGED fatal
  ELSE Commit(resourceMap, co, ro, Set(t, [r EXCEPT !.pc = pc])) /\ UNCHANGED fatal

\* the bucket m.resourceMap[gvr][cluster].namespaces[ns] as the map holds it
\* now (0: no entry, the zero resourceObj with a nil lock and a nil objMap)
CurrentBucket(t) == cobj[resourceMap[th[t].gvr][th[t].cluster]].namespaces[th[t].ns]

\* line 110: the receiver of the bucket's Lock() is read; a nil lock panics
WriteNsRead(t) ==
  /\ ~fatal /\ th[t].pc = "w_nsread"
  /\ EndOrGo(t, CurrentBucket(t) = 0, FALSE, "w_nslock", cobj, robj,
             [th[t] EXCEPT !.nl = CurrentBucket(t)])
  /\ UNCHANGED <<mlock, calls, exp>>

\* line 110: Lock() on it; nl stays, as the lock this call has acquired
WriteNsLock(t) ==
  /\ ~fatal /\ th[t].pc = "w_nslock"
  /\ CanLock(robj[th[t].nl].lock)
  /\ Commit(resourceMap, cobj, [robj EXCEPT ![th[t].nl].lock = Lock(@)],
            Set(t, [th[t] EXCEPT !.pc = "w_nsdefer"]))
  /\ UNCHANGED <<mlock, fatal, calls, exp>>

\* line 111: defer evaluates the bucket's lock once more
WriteNsDefer(t) ==
  /\ ~fatal /\ th[t].pc = "w_nsdefer"
  /\ Commit(resourceMap, cobj, robj,
            Set(t, [th[t] EXCEPT !.pc = "w_write", !.dN = CurrentBucket(t)]))
  /\ UNCHANGED <<mlock, fatal, calls, exp>>

\* objMapDelete as a delete that leaves the map as it is, and as one that
\* empties it
objMapDeleteNothing(objMap, name) == objMap
objMapDeleteAll(objMap, name) == NoObjects

\* objMap[name] = o (line 112, 125)
objMapPut(objMap, name, o) ==
  [m \in DOMAIN objMap \cup {name} |-> IF m = name THEN o ELSE objMap[m]]
\* delete(objMap, name) (line 138)
objMapDelete(objMap, name) == [m \in DOMAIN objMap \ {name} |-> objMap[m]]

\* lines 112-114, 125-127, 138-140: the bucket is looked up once more and its
\* objMap written; an assignment to the nil objMap panics, a delete does not
WriteObj(t) ==
  /\ ~fatal /\ th[t].pc = "w_write"
  /\ LET b == CurrentBucket(t)
         ro2 == IF b = 0 THEN robj
                ELSE IF th[t].op = "upsert"
                THEN [robj EXCEPT ![b].objMap = objMapPut(@, th[t].name, th[t].o[1])]
                ELSE [robj EXCEPT ![b].objMap = objMapDelete(@, th[t].name)]
     IN EndOrGo(t, b = 0 /\ th[t].op = "upsert", TRUE, "w_ret", cobj, ro2, th[t])
  /\ UNCHANGED <<mlock, calls, exp>>

\* lines 115, 128, 141: return nil; the deferred Unlock calls run
WriteReturn(t) ==
  /\ ~fatal /\ th[t].pc = "w_ret"
  /\ LET d == RunDefers(cobj, robj, th[t].dL, th[t].dN, TRUE)
         g == th[t].gvr
         c == th[t].cluster
         n == th[t].ns
         m == th[t].name
     IN IF d.fatal
        THEN fatal' = TRUE /\ UNCHANGED <<resourceMap, cobj, robj, th, exp>>
        ELSE /\ Commit(resourceMap, d.co, d.ro,
                       Set(t, Return(th[t], IF d.panic THEN "panic" ELSE "ok")))
             /\ exp' = IF th[t].op # "upsert" \/ d.panic THEN exp
                       ELSE IF th[t].hit \/ Removing(t, g, c, n, m) THEN Forget(exp, g, c, n, m)
                       ELSE Forget(exp, g, c, n, m) \cup {<<g, c, n, m, th[t].o[1].Obj>>}
             /\ UNCHANGED fatal
  /\ UNCHANGED <<mlock, calls>>

\* ------------------------------------------------------------------ Clean
\* line 93: m.lock.Lock()
CallClean(t, g, cluster) ==
  /\ ~fatal /\ th[t].pc = "idle"
  /\ CanLock(mlock)
  /\ mlock' = Lock(mlock)
  /\ Commit(resourceMap, cobj, robj,
            [Mark(th, g, cluster, Nil, Nil, TRUE) EXCEPT
               ![t] = [Idle EXCEPT !.pc = "clean_put", !.op = "clean", !.gvr = g,
                                   !.cluster = cluster, !.pre = View]])
  /\ exp' = ForgetCluster(exp, g, cluster)
  /\ calls' = calls + 1
  /\ UNCHANGED fatal

\* lines 95-102: the cluster's entry is replaced by a clusterObj with a new
\* lock and no namespaces; for a resource type without cluster map Clean
\* returns the error "resource ... not found"; m.lock.Unlock() is deferred
Clean(t) ==
  /\ ~fatal /\ th[t].pc = "clean_put"
  /\ LET k == FreshCluster IN
     IF th[t].gvr \notin GVRS
     THEN Commit(resourceMap, cobj, robj, Set(t, Return(th[t], "error")))
     ELSE Commit([resourceMap EXCEPT ![th[t].gvr] = clusterPut(@, th[t].cluster, k)],
                 Alloc(cobj, k, EmptyCluster), robj,
                 Set(t, Return(th[t], "ok")))
  /\ mlock' = Unlock(mlock)
  /\ UNCHANGED <<fatal, calls, exp>>

\* -------------------------------------------------------------------- Get
\* lines 247-252: the cluster's entry is read; without one Get returns nil
CallGet(t, g, cluster, n, m) ==
  /\ ~fatal /\ th[t].pc = "idle"
  /\ LET k == clusterGet(resourceMap, g, cluster)
         r == [Idle EXCEPT !.op = "get", !.gvr = g, !.cluster = cluster, !.ns = n, !.name = m]
     IN Commit(resourceMap, cobj, robj,
               Set(t, IF k = 0 THEN Return(r, "ok")
                      ELSE [r EXCEPT !.pc = "g_rlock", !.c = k]))
  /\ calls' = calls + 1
  /\ UNCHANGED <<mlock, fatal, exp>>

\* line 249: c.lock.RLock()
GetRLock(t) ==
  /\ ~fatal /\ th[t].pc = "g_rlock"
  /\ CanRLock(cobj[th[t].c].lock)
  /\ Commit(resourceMap, [cobj EXCEPT ![th[t].c].lock = RLock(@)], robj,
            Set(t, [th[t] EXCEPT !.pc = "g_nsread"]))
  /\ UNCHANGED <<mlock, fatal, calls, exp>>

\* line 254: the bucket is looked up in m.resourceMap[gvr][cluster], read once
\* more; without one Get returns nil and the deferred c.lock.RUnlock() runs
GetNsRead(t) ==
  /\ ~fatal /\ th[t].pc = "g_nsread"
  /\ LET b == CurrentBucket(t) IN
     IF b = 0
     THEN Commit(resourceMap, [cobj EXCEPT ![th[t].c].lock = RUnlock(@)], robj,
                 Set(t, Return(th[t], "ok")))
     ELSE Commit(resourceMap, cobj, robj, Set(t, [th[t] EXCEPT !.pc = "g_nsrlock", !.qb = b]))
  /\ UNCHANGED <<mlock, fatal, calls, exp>>

\* line 255: nsObjs.lock.RLock()
GetNsRLock(t) ==
  /\ ~fatal /\ th[t].pc = "g_nsrlock"
  /\ CanRLock(robj[th[t].qb].lock)
  /\ Commit(resourceMap, cobj, [robj EXCEPT ![th[t].qb].lock = RLock(@)],
            Set(t, [th[t] EXCEPT !.pc = "g_read"]))
  /\ UNCHANGED <<mlock, fatal, calls, exp>>

\* lines 257-262: what Get hands back for a name: the Obj of its objMap
\* entry, or nil (the empty sequence)
getResult(objMap, name) == IF name \in DOMAIN objMap THEN <<objMap[name].Obj>> ELSE <<>>

\* lines 257-262: nsObjs.objMap[name] is read; both deferred RUnlock calls run
GetRead(t) ==
  /\ ~fatal /\ th[t].pc = "g_read"
  /\ Commit(resourceMap, [cobj EXCEPT ![th[t].c].lock = RUnlock(@)],
            [robj EXCEPT ![th[t].qb].lock = RUnlock(@)],
            Set(t, [Return(th[t], "ok") EXCEPT
                      !.got = getResult(robj[th[t].qb].objMap, th[t].name)]))
  /\ UNCHANGED <<mlock, fatal, calls, exp>>

\* ------------------------------------------------------------------ Query
\* an index value as a read of the Go map yields it: "" for a missing key
Field(index, k) == IF k \in DOMAIN index THEN index[k] ELSE ""

\* query.Match(obj.Index), the predicate bound into the query. The queries
\* of the model carry one of three: "any" accepts every index, "name_n1"
\* accepts the objects named n1, and "fail_n2" accepts every object but those
\* named n2, on which it fails with an error that names their cluster
Preds == {"any", "name_n1", "fail_n2"}
Match(pred, index) ==
  CASE pred = "any" -> [ok |-> TRUE, err |-> Nil]
    [] pred = "name_n1" -> [ok |-> Field(index, "name") = "n1", err |-> Nil]
    [] pred = "fail_n2" ->
         IF Field(index, "name") = "n2"
         THEN [ok |-> FALSE, err |-> IF Field(index, "cluster") = "c1"
                                      THEN "match error c1" ELSE "match error c2"]
         ELSE [ok |-> TRUE, err |-> Nil]

\* the tokens of the sort-spec grammar (package constants)
SortASC == "ASC"
SortDesc == "DESC"
KeyTypeInt == "int"
KeyTypeStr == "str"

\* A sort string is held as strings.Split and strings.TrimSpace leave it: the
\* sequence of its comma-separated terms that are not empty, each one the
\* pieces of its first space-separated token around KeyTypeSep (key) and the
\* space-separated tokens after the first (dir). <<>> is the empty string.
SortTerm(key, dir) == [key |-> key, dir |-> dir]
\* lines 151-153: "cluster, namespace, name"
DefaultSort == <<SortTerm(<<"cluster">>, <<>>), SortTerm(<<"namespace">>, <<>>),
                 SortTerm(<<"name">>, <<>>)>>

\* lines 160-207: the terms become innerSort values; a term of more than two
\* tokens ends sortObjs with the objects as they are and no error, a wrong
\* direction, a wrong type or a key that checkKeyMap lacks ends it with an error
RECURSIVE parseSorts(_, _, _, _)
parseSorts(ss, i, checkKeyMap, sorts) ==
  IF i > Len(ss) THEN [kind |-> "ok", err |-> Nil, sorts |-> sorts]
  ELSE LET term == ss[i]
           st == [key |-> term.key[1],
                  typ |-> IF Len(term.key) = 2 THEN term.key[2] ELSE KeyTypeStr,
                  reverse |-> Len(term.dir) = 1 /\ term.dir[1] = SortDesc]
       IN IF Len(term.dir) > 1 THEN [kind |-> "unsorted", err |-> Nil, sorts |-> <<>>]
          ELSE IF Len(term.dir) = 1 /\ term.dir[1] \notin {SortDesc, SortASC}
          THEN [kind |-> "err", err |-> "error sort format", sorts |-> <<>>]
          ELSE IF Len(term.key) > 2
          THEN [kind |-> "err", err |-> "error type format", sorts |-> <<>>]
          ELSE IF Len(term.key) = 2 /\ term.key[2] \notin {KeyTypeInt, KeyTypeStr}
          THEN [kind |-> "err", err |-> "unsupported typ", sorts |-> <<>>]
          ELSE IF st.key \notin checkKeyMap
          THEN [kind |-> "err", err |-> "unexpected sort key", sorts |-> <<>>]
          ELSE parseSorts(ss, i + 1, checkKeyMap, Append(sorts, st))

\* strconv.ParseFloat(s, 64) on the strings of the model
ParseFloat(s) ==
  CASE s = "1" -> [ok |-> TRUE, v |-> 1]
    [] s = "2" -> [ok |-> TRUE, v |-> 2]
    [] s = "3" -> [ok |-> TRUE, v |-> 3]
    [] s = "10" -> [ok |-> TRUE, v |-> 10]
    [] OTHER -> [ok |-> FALSE, v |-> 0]

\* the comparison of two numbers taken on their decimal texts
numLessAsText(vi, vj) == StrLess(Itoa(vi), Itoa(vj))
\* line 226: r = vi < vj
numLess(vi, vj) == vi < vj

\* lines 211-236: one term of the comparison
compareBy(st, a, b) ==
  LET vis == Field(a.Index, st.key)
      vjs == Field(b.Index, st.key)
      vi == ParseFloat(vis)
      vj == ParseFloat(vjs)
  IN IF st.typ = KeyTypeInt
     THEN IF ~vi.ok \/ ~vj.ok THEN [err |-> TRUE, r |-> FALSE, equals |-> FALSE]
          ELSE [err |-> FALSE, r |-> numLess(vi.v, vj.v), equals |-> vi.v = vj.v]
     ELSE [err |-> FALSE, r |-> StrLess(vis, vjs), equals |-> vis = vjs]

\* lines 208-241: the less function handed to sort.Slice: the terms in listed
\* order; true when the objects are equal on all of them and after a number
\* that does not parse (which sets sortErr)
RECURSIVE less(_, _, _, _)
less(sorts, a, b, i) ==
  IF i > Len(sorts) THEN [err |-> FALSE, r |-> TRUE]
  ELSE LET c == compareBy(sorts[i], a, b) IN
       IF c.err THEN [err |-> TRUE, r |-> TRUE]
       ELSE IF c.equals THEN less(sorts, a, b, i + 1)
       ELSE [err |-> FALSE, r |-> IF sorts[i].reverse THEN ~c.r ELSE c.r]

\* the orders sort.Slice can leave the objects in: it is not stable and the
\* scan hands it the objects in the order of Go's map iteration, so objects
\* that less does not tell apart come out in any order
RECURSIVE sortedOrders(_, _)
sortedOrders(objs, sorts) ==
  IF objs = {} THEN {<<>>}
  ELSE UNION {{<<x>> \o rest : rest \in sortedOrders(objs \ {x}, sorts)} :
                x \in {y \in objs : \A z \in objs \ {y} : less(sorts, y, z, 1).r}}

\* lines 150-244: what sortObjs can return for the collected objects and the
\* sort string s: an error, or the objects in one of orders. checkKeyMap is
\* the Index of the object the scan collected first.
sortObjs(objs, s) ==
  IF objs = {} THEN {[err |-> Nil, orders |-> {<<>>}]}
  ELSE {LET p == parseSorts(IF s = <<>> THEN DefaultSort ELSE s, 1, DOMAIN first.Index, <<>>)
            failing == {x \in objs \X objs : x[1] # x[2] /\ less(p.sorts, x[1], x[2], 1).err}
        IN CASE p.kind = "err" -> [err |-> p.err, orders |-> {}]
             [] p.kind = "unsorted" -> [err |-> Nil, orders |-> sortedOrders(objs, <<>>)]
             [] p.kind = "ok" /\ failing # {} ->
                  [err |-> "can not convert to number", orders |-> {}]
             [] OTHER -> [err |-> Nil, orders |-> sortedOrders(objs, p.sorts)]
        : first \in objs}

\* Paginate with the first page starting at pageSize
PaginateFromPage(l, page, pageSize) ==
  IF pageSize = 0 THEN [start |-> 0, end |-> l]
  ELSE LET start == page * pageSize
           end == start + pageSize
       IN [start |-> IF start >= l THEN l ELSE start,
           end |-> IF end >= l THEN l ELSE end]

\* lines 295-309: the slice bounds of the page
Paginate(l, page, pageSize) ==
  IF pageSize = 0 THEN [start |-> 0, end |-> l]
  ELSE LET start == (page - 1) * pageSize
           end == start + pageSize
       IN [start |-> IF start >= l THEN l ELSE start,
           end |-> IF end >= l THEN l ELSE end]

\* lines 285-313: the results the query can end with for the objects the
\* scan collected; a sort error ends it before Total is set;
\* resources[start:end] panics when the bounds are not 0 <= start <= end <= l
queryResult(resources, err, s, page, pageSize) ==
  LET l == Cardinality(resources)
      p == Paginate(l, page, pageSize)
  IN IF l = 0 THEN {[out |-> "ok", res |-> [Items |-> <<>>, Total |-> 0, Error |-> err]]}
     ELSE UNION
       {IF o.err # Nil
        THEN {[out |-> "ok", res |-> [Items |-> <<>>, Total |-> 0, Error |-> o.err]]}
        ELSE IF p.start < 0 \/ p.end < p.start \/ p.end > l
        THEN {[out |-> "panic", res |-> NoResult]}
        ELSE {[out |-> "ok",
               res |-> [Items |-> [i \in 1..(p.end - p.start) |-> sorted[p.start + i].Obj],
                        Total |-> l, Error |-> err]] : sorted \in o.orders}
        : o \in sortObjs(resources, s)}

\* lines 266-267: res and resources are set up
CallQuery(t, g, qns, pred, sort, page, pageSize) ==
  /\ ~fatal /\ th[t].pc = "idle"
  /\ Commit(resourceMap, cobj, robj,
            Set(t, [Idle EXCEPT !.pc = "q_range", !.op = "query", !.gvr = g, !.qns = qns,
                                !.pred = pred, !.sort = sort,
                                !.page = page, !.pageSize = pageSize]))
  /\ calls' = calls + 1
  /\ UNCHANGED <<mlock, fatal, exp>>

\* line 268: the range over m.resourceMap[gvr] yields a cluster not visited
\* yet; when there is none, lines 285-313 make the result
QueryRange(t) ==
  /\ ~fatal /\ th[t].pc = "q_range"
  /\ LET todo == {c \in Clusters : clusterGet(resourceMap, th[t].gvr, c) # 0} \ th[t].vis IN
     IF todo = {}
     THEN \E q \in queryResult(th[t].acc, th[t].err, th[t].sort, th[t].page, th[t].pageSize) :
            Commit(resourceMap, cobj, robj, Set(t, [Return(th[t], q.out) EXCEPT !.res = q.res]))
     ELSE \E c \in todo :
            Commit(resourceMap, cobj, robj,
                   Set(t, [th[t] EXCEPT !.pc = "q_rlock", !.vis = @ \cup {c},
                                        !.nss = resourceMap[th[t].gvr][c]]))
  /\ UNCHANGED <<mlock, fatal, calls, exp>>

\* line 269: nss.lock.RLock()
QueryRLock(t) ==
  /\ ~fatal /\ th[t].pc = "q_rlock"
  /\ CanRLock(cobj[th[t].nss].lock)
  /\ Commit(resourceMap, [cobj EXCEPT ![th[t].nss].lock = RLock(@)], robj,
            Set(t, [th[t] EXCEPT !.pc = "q_nsrange", !.nsvis = {}]))
  /\ UNCHANGED <<mlock, fatal, calls, exp>>

\* the namespace filter as one that lets every namespace through
nsSelectedAlways(qns, ns) == TRUE
\* line 271: query.Namespace == "" || query.Namespace == ns
nsSelected(qns, ns) == qns = "" \/ qns = ns

\* lines 270-271, 283: the range over nss.namespaces yields a namespace not
\* visited yet, which the query's Namespace selects or not; when there is
\* none, nss.lock.RUnlock()
QueryNsRange(t) ==
  /\ ~fatal /\ th[t].pc = "q_nsrange"
  /\ LET k == th[t].nss
         todo == {n \in Namespaces : cobj[k].namespaces[n] # 0} \ th[t].nsvis
     IN IF todo = {}
        THEN Commit(resourceMap, [cobj EXCEPT ![k].lock = RUnlock(@)], robj,
                    Set(t, [th[t] EXCEPT !.pc = "q_range", !.nss = 0, !.nsvis = {}]))
        ELSE \E n \in todo :
               Commit(resourceMap, cobj, robj,
                      Set(t, IF nsSelected(th[t].qns, n)
                             THEN [th[t] EXCEPT !.pc = "q_nsrlock", !.nsvis = @ \cup {n},
                                                !.qb = cobj[k].namespaces[n]]
                             ELSE [th[t] EXCEPT !.nsvis = @ \cup {n}]))
  /\ UNCHANGED <<mlock, fatal, calls, exp>>

\* line 272: robj.lock.RLock()
QueryNsRLock(t) ==
  /\ ~fatal /\ th[t].pc = "q_nsrlock"
  /\ CanRLock(robj[th[t].qb].lock)
  /\ Commit(resourceMap, cobj, [robj EXCEPT ![th[t].qb].lock = RLock(@)],
            Set(t, [th[t] EXCEPT !.pc = "q_scan"]))
  /\ UNCHANGED <<mlock, fatal, calls, exp>>

\* the scan of an objMap as one that ends at the first error, with nothing
\* collected from that bucket
scanObjMapHalting(pred, objMap, resources, err) ==
  LET found == {objMap[m] : m \in DOMAIN objMap}
      failed == {e \in found : ~Match(pred, e.Index).ok /\ Match(pred, e.Index).err # Nil}
  IN IF failed = {}
     THEN {[resources |-> resources \cup {e \in found : Match(pred, e.Index).ok}, err |-> err]}
     ELSE {[resources |-> resources, err |-> Match(pred, e.Index).err] : e \in failed}

\* lines 273-279: the objects of objMap that match are appended to resources;
\* of the errors of the others, the one the map iteration yields last stays
\* in res.Error
scanObjMap(pred, objMap, resources, err) ==
  LET found == {objMap[m] : m \in DOMAIN objMap}
      failed == {e \in found : ~Match(pred, e.Index).ok /\ Match(pred, e.Index).err # Nil}
      matched == resources \cup {e \in found : Match(pred, e.Index).ok}
  IN IF failed = {} THEN {[resources |-> matched, err |-> err]}
     ELSE {[resources |-> matched, err |-> Match(pred, e.Index).err] : e \in failed}

\* lines 273-279: the bucket is scanned
QueryScan(t) ==
  /\ ~fatal /\ th[t].pc = "q_scan"
  /\ \E r \in scanObjMap(th[t].pred, robj[th[t].qb].objMap, th[t].acc, th[t].err) :
       Commit(resourceMap, cobj, robj,
              Set(t, [th[t] EXCEPT !.pc = "q_nsrunlock", !.err = r.err, !.acc = r.resources]))
  /\ UNCHANGED <<mlock, fatal, calls, exp>>

\* line 280: robj.lock.RUnlock()
QueryNsRUnlock(t) ==
  /\ ~fatal /\ th[t].pc = "q_nsrunlock"
  /\ Commit(resourceMap, cobj, [robj EXCEPT ![th[t].qb].lock = RUnlock(@)],
            Set(t, [th[t] EXCEPT !.pc = "q_nsrange", !.qb = 0]))
  /\ UNCHANGED <<mlock, fatal, calls, exp>>

\* ------------------------------------------------------- Go's map checks
\* the Go maps the next step of a goroutine reads or writes: the cluster map
\* of a resource type (g), the namespaces map of a clusterObj (k) and the
\* objMap of a resourceObj (b)
Acc(kind, g, id, w) == [kind |-> kind, g |-> g, id |-> id, w |-> w]
Accesses(t) ==
  LET r == th[t]
      cur == resourceMap[r.gvr][r.cluster]
      clusters == Acc("clusters", r.gvr, 0, FALSE)
  IN CASE r.pc = "init_check" -> {Acc("namespaces", "", r.c, FALSE)}
       [] r.pc = "init_insert" -> {clusters, Acc("namespaces", "", cur, TRUE)}
       [] r.pc = "init_new" -> {Acc("clusters", r.gvr, 0, TRUE)}
       [] r.pc \in {"w_lockread", "w_defer"} -> {clusters}
       [] r.pc \in {"w_nsread", "w_nsdefer", "g_nsread"} ->
            {clusters, Acc("namespaces", "", cur, FALSE)}
       [] r.pc = "w_write" ->
            {clusters, Acc("namespaces", "", cur, FALSE)}
              \cup (IF CurrentBucket(t) = 0 THEN {}
                    ELSE {Acc("objMap", "", CurrentBucket(t), TRUE)})
       [] r.pc = "clean_put" -> {Acc("clusters", r.gvr, 0, TRUE)}
       [] r.pc \in {"g_read", "q_scan"} -> {Acc("objMap", "", r.qb, FALSE)}
       [] r.pc = "q_range" -> {clusters}
       [] r.pc = "q_nsrange" -> {Acc("namespaces", "", r.nss, FALSE)}
       [] OTHER -> {}

\* two goroutines are about to access one map, one of them writing, and no
\* lock keeps either from going first
Races(t, u) ==
  \E a \in Accesses(t), b \in Accesses(u) :
     a.kind = b.kind /\ a.g = b.g /\ a.id = b.id /\ (a.w \/ b.w)

\* the runtime notices the concurrent map access and throws
\* ("fatal error: concurrent map writes", "concurrent map read and map write")
MapRace(t, u) ==
  /\ ~fatal /\ Races(t, u)
  /\ fatal' = TRUE
  /\ UNCHANGED <<resourceMap, cobj, robj, mlock, th, calls, exp>>

\* --------------------------------------------------------- specifications
\* NewMemoryStore: an empty cluster map for every configured resource type
NewMemoryStore ==
  /\ resourceMap = [g \in GVRS |-> [c \in Clusters |-> 0]]
  /\ cobj = [k \in {} |-> EmptyCluster]
  /\ robj = [b \in {} |-> EmptyBucket]
  /\ mlock = NewRWMutex
  /\ th = [t \in Threads |-> Idle]
  /\ fatal = FALSE
  /\ calls = 0
  /\ exp = {}

Init == NewMemoryStore

\* the steps inside OnResourceAdded, OnResourceModified and OnResourceDeleted
WriteStep(t) ==
  \/ InitRLock(t) \/ InitCheck(t) \/ InitLock(t) \/ InitInsert(t) \/ InitNewCluster(t)
  \/ WriteLockRead(t) \/ WriteLock(t) \/ WriteDefer(t) \/ WriteNsRead(t)
  \/ WriteNsLock(t) \/ WriteNsDefer(t) \/ WriteObj(t) \/ WriteReturn(t)

\* the steps inside Get
GetStep(t) == GetRLock(t) \/ GetNsRead(t) \/ GetNsRLock(t) \/ GetRead(t)

\* the steps inside Query
QueryStep(t) ==
  \/ QueryRange(t) \/ QueryRLock(t) \/ QueryNsRange(t) \/ QueryNsRLock(t)
  \/ QueryScan(t) \/ QueryNsRUnlock(t)

\* the steps inside a call
Step(t) == WriteStep(t) \/ Clean(t) \/ GetStep(t) \/ QueryStep(t)

\* a call, its arguments drawn from the given keys
Call(t, keys) ==
  \/ \E k \in keys : \E raw \in RawObjects(k) : OnResourceAdded(t, k[1], k[2], raw)
  \/ \E k \in keys : \E raw \in RawObjects(k) : OnResourceModified(t, k[1], k[2], raw)
  \/ \E k \in keys : OnResourceDeleted(t, k[1], k[2], Raw(k[3], k[4], 1))
  \/ \E k \in keys : CallClean(t, k[1], k[2])
  \/ \E k \in keys : CallGet(t, k[1], k[2], k[3], k[4])
  \/ \E k \in keys : \E n \in {"", k[3]} : CallQuery(t, k[1], n, "any", <<>>, 1, 0)

\* any number of goroutines call the store concurrently
Next ==
  \E t \in Threads :
     \/ calls < ConcCalls /\ Call(t, ConcKeys)
     \/ Step(t)
     \/ \E u \in Threads \ {t} : MapRace(t, u)

Spec == Init /\ [][Next]_vars

\* the same with fewer calls, every goroutine in a call scheduled again and
\* again (the Go scheduler preempts: no runnable goroutine is starved)
NextFair ==
  \E t \in Threads :
     \/ calls < FairCalls /\ Call(t, ConcKeys)
     \/ Step(t)
     \/ \E u \in Threads \ {t} : MapRace(t, u)

SpecFair == Init /\ [][NextFair]_vars /\ \A t \in Threads : WF_vars(Step(t))

\* one goroutine calls the store, one call after the other
NextSeq ==
  \E t \in SeqThreads :
     \/ calls < SeqCalls /\ Call(t, SeqKeys)
     \/ Step(t)

SpecSeq == Init /\ [][NextSeq]_vars

\* a store that holds the first n names, in turn in the namespaces a and b of
\* cluster c1, as n upserts leave it (n = 0: as deletes leave it afterwards)
PageKey(i) == <<"g1", "c1", IF i % 2 = 1 THEN "a" ELSE "b", NameSeq[i]>>
PageEntry(i) ==
  buildResourceWithIndex("g1", "c1", Raw(PageKey(i)[3], NameSeq[i], 1)).o
PageObjMap(n, ns) ==
  LET is == {i \in 1..n : PageKey(i)[3] = ns} IN
  [m \in {NameSeq[i] : i \in is} |-> PageEntry(CHOOSE i \in is : NameSeq[i] = m)]
InitPage ==
  \E n \in 0..MaxTotal :
     /\ resourceMap = [g \in GVRS |-> [c \in Clusters |-> IF g = "g1" /\ c = "c1" THEN 1 ELSE 0]]
     /\ cobj = <<[lock |-> NewRWMutex,
                  namespaces |-> [ns \in Namespaces |-> CASE ns = "a" -> 1 [] ns = "b" -> 2 [] OTHER -> 0]]>>
     /\ robj = <<[lock |-> NewRWMutex, objMap |-> PageObjMap(n, "a")],
                 [lock |-> NewRWMutex, objMap |-> PageObjMap(n, "b")]>>
     /\ mlock = NewRWMutex
     /\ th = [t \in Threads |-> Idle]
     /\ fatal = FALSE
     /\ calls = 0
     /\ exp = {<<"g1", "c1", PageKey(i)[3], NameSeq[i], PageEntry(i).Obj>> : i \in 1..n}

\* one goroutine queries that store, page by page
NextPage ==
  \E t \in SeqThreads :
     \/ /\ calls < PageCalls
        /\ \E page \in Pages, pageSize \in PageSizes : CallQuery(t, "g1", "", "any", <<>>, page, pageSize)
     \/ QueryStep(t)

SpecPage == InitPage /\ [][NextPage]_vars

\* the calls of the configuration specification: on a resource type that
\* indexes namespace and name (g2), on one that indexes neither (g3) and on
\* one that is not configured, with raw objects that are v1.Objects, with or
\* without deletion timestamp, or are not
ConfGVRS == {"g2", "g3", Unconfigured}
ConfRaws ==
  {[Raw("a", "n1", 1) EXCEPT !.v1 = x[1], !.deleted = x[2]] :
     x \in {<<TRUE, FALSE>>, <<TRUE, TRUE>>, <<FALSE, FALSE>>}}
ConfCall(t) ==
  \/ \E g \in ConfGVRS, raw \in ConfRaws : OnResourceAdded(t, g, "c1", raw)
  \/ \E g \in ConfGVRS, raw \in ConfRaws : OnResourceModified(t, g, "c1", raw)
  \/ \E g \in ConfGVRS, raw \in ConfRaws : OnResourceDeleted(t, g, "c1", raw)
  \/ \E g \in ConfGVRS : CallClean(t, g, "c1")
  \/ \E g \in ConfGVRS, n \in {"", "a"} : CallGet(t, g, "c1", n, IF n = "" THEN "" ELSE "n1")
  \/ \E g \in ConfGVRS : CallQuery(t, g, "", "any", <<>>, 1, 0)

\* one goroutine makes these calls, one after the other
NextConf ==
  \E t \in SeqThreads :
     \/ calls < ConfCalls /\ ConfCall(t)
     \/ Step(t)

SpecConf == Init /\ [][NextConf]_vars

\* a store of the resource type g2, whose index has the priority: two
\* clusters with the buckets a and b each, holding some of five objects
QueryObjs == <<[cluster |-> "c1", raw |-> Raw("a", "n1", 3)],
               [cluster |-> "c1", raw |-> Raw("a", "n2", 1)],
               [cluster |-> "c1", raw |-> Raw("b", "n1", 2)],
               [cluster |-> "c2", raw |-> Raw("a", "n1", 10)],
               [cluster |-> "c2", raw |-> Raw("b", "n2", 2)]>>
QueryStores == {{}, {2}, {1, 2, 3}, {3, 5}, {1, 2, 3, 4, 5}}
QueryObjMap(S, cluster, ns) ==
  LET is == {i \in S : QueryObjs[i].cluster = cluster /\ QueryObjs[i].raw.namespace = ns} IN
  [m \in {QueryObjs[i].raw.name : i \in is} |->
     buildResourceWithIndex("g2", cluster,
                            QueryObjs[CHOOSE i \in is : QueryObjs[i].raw.name = m].raw).o]
InitQuery ==
  \E S \in QueryStores :
     /\ resourceMap = [g \in GVRS |-> [c \in Clusters |->
                         IF g # "g2" THEN 0 ELSE IF c = "c1" THEN 1 ELSE 2]]
     /\ cobj = <<[lock |-> NewRWMutex,
                  namespaces |-> [ns \in Namespaces |-> CASE ns = "a" -> 1 [] ns = "b" -> 2 [] OTHER -> 0]],
                 [lock |-> NewRWMutex,
                  namespaces |-> [ns \in Namespaces |-> CASE ns = "a" -> 3 [] ns = "b" -> 4 [] OTHER -> 0]]>>
     /\ robj = <<[lock |-> NewRWMutex, objMap |-> QueryObjMap(S, "c1", "a")],
                 [lock |-> NewRWMutex, objMap |-> QueryObjMap(S, "c1", "b")],
                 [lock |-> NewRWMutex, objMap |-> QueryObjMap(S, "c2", "a")],
                 [lock |-> NewRWMutex, objMap |-> QueryObjMap(S, "c2", "b")]>>
     /\ mlock = NewRWMutex
     /\ th = [t \in Threads |-> Idle]
     /\ fatal = FALSE
     /\ calls = 0
     /\ exp = {<<"g2", QueryObjs[i].cluster, QueryObjs[i].raw.namespace, QueryObjs[i].raw.name,
                 buildResourceWithIndex("g2", QueryObjs[i].cluster, QueryObjs[i].raw).o.Obj>> :
                 i \in S}

\* the sort strings of the queries: "", "priority:int ASC", "priority:int DESC",
\* "priority:int DESC, name DESC", "nokey", "name:int" and "name x y, nokey"
PrioAsc == <<SortTerm(<<"priority", KeyTypeInt>>, <<SortASC>>)>>
PrioDesc == <<SortTerm(<<"priority", KeyTypeInt>>, <<SortDesc>>)>>
PrioDescNameDesc == <<SortTerm(<<"priority", KeyTypeInt>>, <<SortDesc>>),
                      SortTerm(<<"name">>, <<SortDesc>>)>>
NoKey == <<SortTerm(<<"nokey">>, <<>>)>>
NameInt == <<SortTerm(<<"name", KeyTypeInt>>, <<>>)>>
ThreeTokensNoKey == <<SortTerm(<<"name">>, <<"x", "y">>), SortTerm(<<"nokey">>, <<>>)>>
QuerySorts == {<<>>, PrioAsc, PrioDesc, PrioDescNameDesc, NoKey, NameInt, ThreeTokensNoKey}
QueryPages == {0, 1, 2}
QueryPageSizes == {0, 2}

\* one goroutine queries that store
NextQuery ==
  \E t \in SeqThreads :
     \/ /\ calls < QueryCalls
        /\ \E qns \in {"", "a"}, pred \in Preds, sort \in QuerySorts,
              page \in QueryPages, pageSize \in QueryPageSizes :
             CallQuery(t, "g2", qns, pred, sort, page, pageSize)
     \/ QueryStep(t)

SpecQuery == InitQuery /\ [][NextQuery]_vars

\* ------------------------------------------------------------ the claims
Finished(t) == th[t].pc = "idle" /\ th[t].op # "none"
KeyOf(t) == <<th[t].gvr, th[t].cluster, th[t].ns, th[t].name>>
\* what the history says Get returns for a key: the last payload upserted
\* and not removed since, or nil
Expected(k) ==
  LET hits == {x \in exp : <<x[1], x[2], x[3], x[4]>> = k} IN
  IF hits = {} THEN <<>> ELSE <<(CHOOSE x \in hits : TRUE)[5]>>
InCluster(x, g, c) == x[1] = g /\ x[2] = c

\* C1: a Get that has returned, after any sequence of upserts, deletes and
\* Cleans by its caller, handed back the payload of the last upsert of its key
\* when no delete of the key and no Clean of its cluster came later, and nil
\* otherwise.
C1_GetReturnsLastWrite ==
  \A t \in Threads :
     Finished(t) /\ th[t].op = "get" => th[t].out = "ok" /\ th[t].got = Expected(KeyOf(t))

\* a Get handed back a payload that replaced an earlier one of the same key
C1_Witness ==
  \E t \in Threads :
     /\ Finished(t) /\ th[t].op = "get" /\ calls = 3
     /\ th[t].got # <<>> /\ th[t].got[1].data = 2
     /\ Cardinality(ObjectView) = 1

\* C2: once every call has returned, each key whose upsert has returned, with
\* no delete of the key and no Clean of its cluster running then or called
\* later, is stored and Get finds it: no writer's lazy creation has replaced
\* the bucket or the cluster another writer wrote to.
C2_NoLostUpdate ==
  (\A t \in Threads : th[t].pc = "idle")
     => \A x \in exp : Stored(x[1], x[2], x[3], x[4])

\* C3: when a Clean and an upsert or delete on the same cluster are the only
\* two calls made, in any interleaving, both return normally and the cluster
\* holds what one of the two serial orders leaves: nothing, or the upserted
\* object alone.
C3_CleanAtomic ==
  \A t, u \in Threads :
     (/\ calls = 2 /\ Finished(t) /\ Finished(u)
      /\ th[t].op = "clean" /\ th[u].op \in {"upsert", "delete"}
      /\ th[u].gvr = th[t].gvr /\ th[u].cluster = th[t].cluster)
     => /\ th[t].out = "ok" /\ th[u].out = "ok"
        /\ LET here == {x \in ObjectView : InCluster(x, th[t].gvr, th[t].cluster)} IN
           \/ here = {}
           \/ th[u].op = "upsert" /\ here = {KeyOf(u) \o <<th[u].o[1].Obj>>}

\* C4: when Clean has returned, its cluster has no namespace bucket and no
\* object, and the clusters, buckets and objects of every other cluster and
\* resource type are what they were when it was called.
C4_CleanFrame ==
  \A t \in Threads :
     Finished(t) /\ th[t].op = "clean" =>
       LET g == th[t].gvr
           c == th[t].cluster
       IN /\ th[t].out = "ok"
          /\ <<g, c>> \in ClusterView
          /\ {x \in BucketView : InCluster(x, g, c)} = {}
          /\ {x \in ObjectView : InCluster(x, g, c)} = {}
          /\ ClusterView \ {<<g, c>>} = th[t].pre.cl \ {<<g, c>>}
          /\ {x \in BucketView : ~InCluster(x, g, c)} = {x \in th[t].pre.ns : ~InCluster(x, g, c)}
          /\ {x \in ObjectView : ~InCluster(x, g, c)} = {x \in th[t].pre.ob : ~InCluster(x, g, c)}

\* a Clean returned that emptied a cluster with an object and left the object
\* of another cluster
C4_Witness ==
  \E t \in Threads :
     /\ Finished(t) /\ th[t].op = "clean"
     /\ \E x \in th[t].pre.ob : InCluster(x, th[t].gvr, th[t].cluster)
     /\ \E x \in ObjectView : ~InCluster(x, th[t].gvr, th[t].cluster)

\* the key of the call was not stored when the call was made
AbsentBefore(t) == \A x \in th[t].pre.ob : <<x[1], x[2], x[3], x[4]>> # KeyOf(t)

\* C5 as the spec has it: an OnResourceDeleted of a key that is not stored
\* returns nil and leaves clusters, buckets and objects as they were.
C5_DeleteAbsentIsNoop ==
  \A t \in Threads :
     Finished(t) /\ th[t].op = "delete" /\ AbsentBefore(t)
       => th[t].out = "ok" /\ View = th[t].pre

\* C5: an OnResourceDeleted of a key that is not stored returns nil and leaves
\* every stored object as it was; the cluster of the key and the namespace
\* bucket of the key exist afterwards (created empty when they were missing)
\* and no other cluster or bucket appears or disappears.
C5_DeleteAbsentKeepsObjects ==
  \A t \in Threads :
     Finished(t) /\ th[t].op = "delete" /\ AbsentBefore(t)
       => /\ th[t].out = "ok"
          /\ ObjectView = th[t].pre.ob
          /\ ClusterView = th[t].pre.cl \cup {<<th[t].gvr, th[t].cluster>>}
          /\ BucketView = th[t].pre.ns \cup {<<th[t].gvr, th[t].cluster, th[t].ns>>}

\* a delete of a key that was not stored returned, in a bucket that holds
\* another object
C5_Witness ==
  \E t \in Threads :
     /\ Finished(t) /\ th[t].op = "delete" /\ AbsentBefore(t)
     /\ \E x \in ObjectView : <<x[1], x[2], x[3]>> = <<th[t].gvr, th[t].cluster, th[t].ns>>

\* the goroutine is at a Lock or RLock that another holder keeps it from
Blocked(u) ==
  \/ th[u].pc \in {"init_rlock", "g_rlock"} /\ ~CanRLock(cobj[th[u].c].lock)
  \/ th[u].pc = "init_lock" /\ ~CanLock(cobj[th[u].c].lock)
  \/ th[u].pc = "w_lock" /\ ~CanLock(cobj[th[u].lk].lock)
  \/ th[u].pc = "w_nslock" /\ ~CanLock(robj[th[u].nl].lock)
  \/ th[u].pc = "q_rlock" /\ ~CanRLock(cobj[th[u].nss].lock)
  \/ th[u].pc \in {"g_nsrlock", "q_nsrlock"} /\ ~CanRLock(robj[th[u].qb].lock)

\* C6: while a writer holds the locks of its objMap write, an upsert, delete
\* or Get on another namespace of the same cluster, one whose bucket exists,
\* is not kept waiting at any lock.
C6_OtherNamespaceNotBlocked ==
  \A t, u \in Threads :
     (/\ th[t].pc \in {"w_write", "w_ret"}
      /\ th[u].pc # "idle" /\ th[u].op \in {"upsert", "delete", "get"}
      /\ th[u].gvr = th[t].gvr /\ th[u].cluster = th[t].cluster /\ th[u].ns # th[t].ns
      /\ <<th[u].gvr, th[u].cluster, th[u].ns>> \in BucketView)
     => ~Blocked(u)

\* C7: every call a goroutine has started returns.
C7_EveryCallReturns == \A t \in Threads : (th[t].pc # "idle") ~> (th[t].pc = "idle")

\* C8: from the RLock of a bucket by Query to its RUnlock, no step of another
\* goroutine changes the objMap of that bucket.
C8_ScanSnapshot ==
  [][\A t \in Threads :
       th[t].pc \in {"q_scan", "q_nsrunlock"} /\ th'[t] = th[t] /\ ~fatal'
         => robj'[th[t].qb].objMap = robj[th[t].qb].objMap]_vars

\* the objects of a resource type that a query without a namespace selects,
\* as payloads in the default order
Matching(g) == {Entry(x[1], x[2], x[3], x[4]) : x \in {y \in ObjectView : y[1] = g}}
Clamp(x, l) == IF x < 0 THEN 0 ELSE IF x > l THEN l ELSE x
Slice(seq, start, end) == [i \in 1..(end - start) |-> seq[start + i]]
Payloads(seq) == [i \in 1..Len(seq) |-> seq[i].Obj]
\* the objects in the order of the default sort, which tells any two apart
DefaultOrder(objs) == CHOOSE seq \in UNION {o.orders : o \in sortObjs(objs, <<>>)} : TRUE

\* C9: a Query that has returned did so without a fault and handed back the
\* items [start, end) of the sorted matches, start = (page-1)*pageSize and
\* end = start+pageSize both clamped into [0, total]; all of them when
\* pageSize = 0.
C9_PageClamped ==
  \A t \in Threads :
     Finished(t) /\ th[t].op = "query" /\ th[t].qns = "" =>
       LET all == Payloads(DefaultOrder(Matching(th[t].gvr)))
           l == Len(all)
           start == (th[t].page - 1) * th[t].pageSize
       IN /\ th[t].out = "ok"
          /\ th[t].res.Items =
               IF th[t].pageSize = 0 THEN all
               ELSE Slice(all, Clamp(start, l), Clamp(start + th[t].pageSize, l))

\* a query of page p with pageSize 2 over 5 matches has returned
PageOf5(t, p) ==
  /\ Finished(t) /\ th[t].op = "query" /\ th[t].qns = ""
  /\ th[t].pageSize = 2 /\ th[t].page = p
  /\ Cardinality(Matching(th[t].gvr)) = 5

\* C10 as the spec has it: with pageSize 2 over 5 matches, page 1 gives Total 5
\* and 2 items, page 3 gives no items and Total 5.
C10_Page3Empty ==
  \A t \in Threads :
     /\ PageOf5(t, 1) => th[t].out = "ok" /\ th[t].res.Total = 5 /\ Len(th[t].res.Items) = 2
     /\ PageOf5(t, 3) => th[t].out = "ok" /\ th[t].res.Total = 5 /\ th[t].res.Items = <<>>

\* C10: with pageSize 2 over 5 matches, page 1 gives Total 5 and the first 2
\* items, page 3 gives Total 5 and 1 item, the fifth, and page 4 gives no
\* items and Total 5.
C10_PagesOf5 ==
  \A t \in Threads :
     LET all == Payloads(DefaultOrder(Matching(th[t].gvr))) IN
     /\ PageOf5(t, 1) => /\ th[t].out = "ok" /\ th[t].res.Total = 5
                         /\ th[t].res.Items = <<all[1], all[2]>>
     /\ PageOf5(t, 3) => /\ th[t].out = "ok" /\ th[t].res.Total = 5
                         /\ th[t].res.Items = <<all[5]>>
     /\ PageOf5(t, 4) => /\ th[t].out = "ok" /\ th[t].res.Total = 5
                         /\ th[t].res.Items = <<>>

\* the query of page 3 has returned its one item
C10_Witness == \E t \in Threads : PageOf5(t, 3) /\ Len(th[t].res.Items) = 1

\* C19: no two goroutines are ever about to access the cluster map of a
\* resource type, or the namespaces map of a cluster, one of them inserting
\* or replacing an entry, with no lock that keeps one of them out.
C19_MapsUnderLock ==
  \A t, u \in Threads :
     t # u => ~\E a \in Accesses(t), b \in Accesses(u) :
                 /\ a.kind \in {"clusters", "namespaces"}
                 /\ a.kind = b.kind /\ a.g = b.g /\ a.id = b.id /\ (a.w \/ b.w)

\* C20: the Unlock a write has deferred is on the lock it acquired, for the
\* cluster and for the bucket, and when no call is under way no cluster lock
\* and no bucket lock is held.
C20_UnlockWhatWasLocked ==
  /\ \A t \in Threads :
        /\ th[t].pc \in {"w_nsread", "w_nslock", "w_nsdefer", "w_write", "w_ret"}
             => th[t].dL = th[t].lk
        /\ th[t].pc \in {"w_write", "w_ret"} => th[t].dN = th[t].nl
  /\ (\A t \in Threads : th[t].pc = "idle")
        => /\ \A k \in DOMAIN cobj : cobj[k].lock = NewRWMutex
           /\ \A b \in DOMAIN robj : robj[b].lock = NewRWMutex

\* C14: a Query of a resource type that is not configured returns a result
\* with an Error, a Clean of one returns the not-found error, and no step of
\* either changes what the store holds.
C14_UnconfiguredIsError ==
  /\ [](\A t \in Threads :
          Finished(t) /\ th[t].gvr = Unconfigured =>
            /\ th[t].op = "query" => th[t].out = "ok" /\ th[t].res.Error # Nil
            /\ th[t].op = "clean" => th[t].out = "error")
  /\ [][\A t \in Threads :
          th[t].gvr = Unconfigured /\ th[t].op \in {"query", "clean"} /\ th'[t] # th[t]
            => View' = View]_vars

\* C15: every OnResourceAdded, OnResourceModified and OnResourceDeleted
\* returns to its caller, without a panic and without a fatal error, whether
\* the resource type is configured or not, and the store holds a cluster map
\* for the configured resource types and no other.
C15_WritesReturn ==
  /\ ~fatal
  /\ DOMAIN resourceMap = GVRS
  /\ \A t \in Threads :
        Finished(t) /\ th[t].op \in {"upsert", "delete"} => th[t].out \in {"ok", "error"}

\* C16: the Index of every stored object has the keys cluster, namespace,
\* name and is_deleted and the configured keys of its resource type; its
\* cluster is the cluster it is stored under and its is_deleted is "true" or
\* "false".
C16_BuiltinIndexKeys ==
  \A g \in GVRS, c \in Clusters, n \in Namespaces :
     LET k == resourceMap[g][c]
         b == IF k = 0 THEN 0 ELSE cobj[k].namespaces[n]
     IN b # 0 =>
          \A m \in DOMAIN robj[b].objMap :
             LET index == robj[b].objMap[m].Index IN
             /\ {"cluster", "namespace", "name", "is_deleted"} \cup DOMAIN indexConf[g]
                  \subseteq DOMAIN index
             /\ index["cluster"] = c
             /\ index["is_deleted"] \in {"true", "false"}

\* ------------------------------------------------- the results of queries
\* a Query that has returned a result
QueryDone(t) == Finished(t) /\ th[t].op = "query" /\ th[t].out = "ok"
\* the stored objects of the query's resource type in the namespaces the
\* query selects, in every cluster
Selected(t) ==
  {Entry(x[1], x[2], x[3], x[4]) :
     x \in {y \in ObjectView : y[1] = th[t].gvr /\ (th[t].qns = "" \/ y[3] = th[t].qns)}}
\* those the predicate accepts, and those it fails on
Hits(t) == {e \in Selected(t) : Match(th[t].pred, e.Index).ok}
Misses(t) == {e \in Selected(t) : ~Match(th[t].pred, e.Index).ok
                                    /\ Match(th[t].pred, e.Index).err # Nil}
\* the sort strings every term of which is well formed and names a key of
\* the index with values of its type
ValidSorts == {<<>>, PrioAsc, PrioDesc, PrioDescNameDesc}
\* the keys of the index of g2
SchemaKeys == {"cluster", "namespace", "name", "is_deleted", "priority"}
RefsUnknownKey(sort) == \E i \in DOMAIN sort : sort[i].key[1] \notin SchemaKeys
\* the number of items of page number page among l
PageLen(l, page, pageSize) ==
  IF pageSize = 0 THEN l ELSE Clamp(page * pageSize, l) - Clamp((page - 1) * pageSize, l)
\* the items are payloads of objects of the set, each at most once
ItemsAmong(items, objs) ==
  /\ \A i \in DOMAIN items : \E e \in objs : e.Obj = items[i]
  /\ \A i, j \in DOMAIN items : items[i] = items[j] => i = j

\* C11: the Total of every result a Query returns is the number of stored
\* objects of the selected namespaces that the predicate accepts, whatever
\* the page and the page size, and also when the result carries a sort error
\* or a predicate error.
C11_TotalCountsMatches ==
  \A t \in Threads : QueryDone(t) => th[t].res.Total = Cardinality(Hits(t))

\* C12: when a Query with a valid sort string returns over a store where the
\* predicate fails on some selected objects and accepts others, the scan has
\* gone on past the failures: Total is the number of accepted objects, Items
\* is a page of them (of the length the page window gives, each object at
\* most once), and Error is one of the errors the predicate raised.
C12_ScanContinuesAfterError ==
  \A t \in Threads :
     (QueryDone(t) /\ th[t].sort \in ValidSorts /\ Hits(t) # {} /\ Misses(t) # {}) =>
        /\ th[t].res.Total = Cardinality(Hits(t))
        /\ Len(th[t].res.Items) = PageLen(Cardinality(Hits(t)), th[t].page, th[t].pageSize)
        /\ ItemsAmong(th[t].res.Items, Hits(t))
        /\ th[t].res.Error # Nil
        /\ th[t].res.Error \in {Match(th[t].pred, e.Index).err : e \in Misses(t)}
\* over the five objects the predicate failed on the two named n2, one in
\* each cluster, and the three others were counted and paged
C12_Witness ==
  \E t \in Threads :
     /\ QueryDone(t) /\ th[t].pred = "fail_n2" /\ th[t].sort = PrioAsc /\ th[t].qns = ""
     /\ Cardinality(Misses(t)) = 2
     /\ th[t].res.Total = 3 /\ Len(th[t].res.Items) = 2
     /\ th[t].res.Error = "match error c2"

\* C13: every result a Query returns for a sort string that names a key the
\* index does not have carries an error and no items, for every store
\* content and every predicate.
C13_UnknownKeyIsError ==
  \A t \in Threads :
     (QueryDone(t) /\ RefsUnknownKey(th[t].sort)) =>
        th[t].res.Error # Nil /\ th[t].res.Items = <<>>

\* C17: every item a Query on a namespace N returns is the payload of a
\* stored object of N that the predicate accepts, from any cluster, each at
\* most once; Total counts no object outside them, and when the sort string
\* is valid Total is exactly their number.
C17_NamespaceFilter ==
  \A t \in Threads :
     (QueryDone(t) /\ th[t].qns # "") =>
        /\ ItemsAmong(th[t].res.Items,
                      {Entry(x[1], x[2], x[3], x[4]) :
                         x \in {y \in ObjectView : y[1] = th[t].gvr /\ y[3] = th[t].qns
                                    /\ Match(th[t].pred, Entry(y[1], y[2], y[3], y[4]).Index).ok}})
        /\ th[t].res.Total <= Cardinality(Hits(t))
        /\ th[t].sort \in ValidSorts => th[t].res.Total = Cardinality(Hits(t))
\* a query on namespace a over the five objects returned the three of a,
\* which lie in both clusters, and left out the two of b
C17_Witness ==
  \E t \in Threads :
     /\ QueryDone(t) /\ th[t].qns = "a" /\ th[t].pred = "any"
     /\ Cardinality(ObjectView) = 5
     /\ th[t].res.Total = 3 /\ Len(th[t].res.Items) = 3
     /\ \E i, j \in 1..3 : th[t].res.Items[i].anno[1].cluster = "c1"
                             /\ th[t].res.Items[j].anno[1].cluster = "c2"

\* C18: the items a Query returns for "priority:int ASC" are in
\* non-decreasing numeric order of the priority and for "priority:int DESC"
\* in non-increasing order; for "priority:int DESC, name DESC" two items of
\* equal priority are in non-increasing order of the name.
C18_NumericOrder ==
  \A t \in Threads :
     QueryDone(t) =>
        LET items == th[t].res.Items IN
        \A i, j \in DOMAIN items :
           i < j =>
             /\ th[t].sort = PrioAsc => items[i].data <= items[j].data
             /\ th[t].sort \in {PrioDesc, PrioDescNameDesc} => items[i].data >= items[j].data
             /\ (th[t].sort = PrioDescNameDesc /\ items[i].data = items[j].data) =>
                   ~StrLess(items[i].name, items[j].name)
\* the priorities 3, 1, 2 came back as 1, 2, 3
C18_Witness ==
  \E t \in Threads :
     /\ QueryDone(t) /\ th[t].sort = PrioAsc
     /\ {x[5].data : x \in ObjectView} = {3, 1, 2}
     /\ [i \in DOMAIN th[t].res.Items |-> th[t].res.Items[i].data] = <<1, 2, 3>>

====
